---- MODULE Spec2Model ----
(***************************************************************************)
(* tap-gorgias: the Tickets stream's ephemeral-view lifecycle, the three   *)
(* pagination token schemes and the HTTP status classification.            *)
(*                                                                         *)
(* Strings that the code builds by concatenation (URLs, the view filter)   *)
(* are sequences of tokens, concatenated with \o where the code uses + or  *)
(* an f-string, and taken apart again by the operators that read them.     *)
(***************************************************************************)
EXTENDS Integers, Sequences, FiniteSets, TLC

\* ---------------------------------------------------------------- bounds

\* Attempts the framework's request decorator makes before it re-raises the
\* last RetriableAPIError.
MaxTries == 2

\* Most records the remote system holds for one endpoint.
MaxRecords == 3

\* Largest HTTP status code fed to validate_response on its own.
MaxStatus == 650

\* Largest page number and page count in a response's meta.
MaxPage == 5

\* ---------------------------------------------------------------- values

\* A Python value that may be None is a sequence of length 0 (None) or 1.
None == << >>

Some(v) == <<v>>

Val(o) == o[1]

\* The empty string: a string is the sequence of its tokens.
EmptyStr == << >>

Subdomains == {"acme"}

\* Values of the page-size settings.
PageSizes == {1, 2}

\* The default of the page_size setting.
DefaultPageSize == 100

\* Ids the remote system may report for the authenticated user.
UserIds == {7, 8}

\* int(s) for the decimal strings the model meets.
ParseInt(s) == CHOOSE n \in 0..999 : ToString(n) = s

\* Status codes the remote system answers a request of a sync with.
Statuses == {200, 404, 429, 500}

\* datetime values: a date, the seconds of the day, microseconds, and whether
\* the value is timezone-aware (UTC).
Datetimes ==
    { [date |-> "2022-01-01", time |-> "00:00:00", us |-> 0, utc |-> TRUE],
      [date |-> "2022-03-04", time |-> "05:06:07", us |-> 8, utc |-> FALSE] }

\* datetime.isoformat(): the microseconds appear only when they are not zero,
\* the UTC offset only on an aware value.
IsoFormat(dt) ==
    <<dt.date, "T", dt.time>>
        \o (IF dt.us # 0 THEN <<".", ToString(dt.us)>> ELSE << >>)
        \o (IF dt.utc THEN <<"+00:00">> ELSE << >>)

\* Python truthiness of an optional string: None and "" are falsy.
Truthy(o) == o # None /\ Val(o) # EmptyStr

\* ------------------------------------------------------- client.py

\* GorgiasStream.url_base
UrlBase(config) == <<"https://", config.subdomain, ".gorgias.com">>

\* A mutant of ValidateResponse: the client-error range swallows 500.
ValidateResponseOffByOne(status_code) ==
    IF status_code = 429 THEN Some("RetriableAPIError")
    ELSE IF 400 <= status_code /\ status_code <= 500 THEN Some("FatalAPIError")
    ELSE IF 500 <= status_code /\ status_code < 600 THEN Some("RetriableAPIError")
    ELSE None

\* GorgiasStream.validate_response: the exception it raises, None when it
\* returns normally.
ValidateResponse(status_code) ==
    IF status_code = 429 THEN Some("RetriableAPIError")
    ELSE IF 400 <= status_code /\ status_code < 500 THEN Some("FatalAPIError")
    ELSE IF 500 <= status_code /\ status_code < 600 THEN Some("RetriableAPIError")
    ELSE None

\* ------------------------------------------------------- URL handling

\* Index of the first token of s equal to t, 0 when there is none.
RECURSIVE IndexFrom(_, _, _)
IndexFrom(s, t, i) ==
    IF i > Len(s) THEN 0
    ELSE IF s[i] = t THEN i
    ELSE IndexFrom(s, t, i + 1)

IndexOf(s, t) == IndexFrom(s, t, 1)

\* The part of a URL before its query string.
UrlPath(url) ==
    IF IndexOf(url, "?") = 0 THEN url ELSE SubSeq(url, 1, IndexOf(url, "?") - 1)

\* The query string of a URL (what follows the first "?"), "" when none.
UrlQuery(url) ==
    IF IndexOf(url, "?") = 0 THEN << >>
    ELSE SubSeq(url, IndexOf(url, "?") + 1, Len(url))

\* The query string split at "&" into its parameters.
RECURSIVE SplitAmp(_)
SplitAmp(q) ==
    IF q = << >> THEN << >>
    ELSE IF IndexOf(q, "&") = 0 THEN <<q>>
    ELSE <<SubSeq(q, 1, IndexOf(q, "&") - 1)>>
            \o SplitAmp(SubSeq(q, IndexOf(q, "&") + 1, Len(q)))

\* The values of query parameter key (a token such as "limit=") in a URL.
ParamValues(url, key) ==
    LET ps == SplitAmp(UrlQuery(url))
    IN  { SubSeq(ps[i], 2, Len(ps[i])) :
            i \in { j \in 1..Len(ps) : Len(ps[j]) >= 1 /\ ps[j][1] = key } }

\* The value of a query parameter that occurs once, None otherwise.
Param(url, key) ==
    IF Cardinality(ParamValues(url, key)) = 1
    THEN Some(CHOOSE v \in ParamValues(url, key) : TRUE)
    ELSE None

\* TRUE when sequence p is a prefix of sequence s.
IsPrefix(p, s) == Len(p) <= Len(s) /\ SubSeq(s, 1, Len(p)) = p


\* ------------------------------------------------------- state

VARIABLES
    stream,            \* name of the stream being synced
    pc,                \* position of the sync
    config,            \* the tap's config: a function from setting to value
    start_ts,          \* get_starting_timestamp(context): a datetime or None
    remote,            \* the remote system: its user, records and views
    log,               \* the decorated requests so far, oldest first
    current_user_id,   \* create_ticket_view's current_user_id, None before
    view_id,           \* get_records' view_id, None before the create returns
    context,           \* the stream's context: a function from key to value
    next_page_token,   \* the pagination loop's token
    page,              \* records of the current page not yet handed on
    finished,          \* the pagination loop has seen its last page
    emitted,           \* records yielded so far, oldest first
    tries,             \* attempts of the current request already answered
    pending,           \* exception raised inside get_records' try block
    err,               \* exception that ended the sync, None otherwise
    closing,           \* the generator is being closed (GeneratorExit)
    status_code,       \* status code handed to validate_response on its own
    outcome,           \* what validate_response did with status_code
    response,          \* response handed to a method of the stream on its own
    now,               \* the wall clock, in seconds
    slept,             \* the time.sleep calls so far: their durations
    streams,           \* what discover_streams returned, None before
    child              \* the child sync under way: its context and token, None
                       \* while there is none

vars ==
    <<stream, pc, config, start_ts, remote, log, current_user_id, view_id,
      context, next_page_token, page, finished, emitted, tries, pending, err, closing,
      status_code, outcome, response, now, slept, streams,
      child>>

\* One call of the decorated request: the request as prepared (the decorator
\* sends the same prepared request again on every retry) and the JSON body of
\* the response that validate_response accepted, None while there is none.
Exchange(method, url, json, status, body) ==
    [method |-> method, url |-> url, json |-> json,
     body |-> IF ValidateResponse(status) = None THEN Some(body) ELSE None]

\* The log after attempt n+1 of a call: the call is entered at its first
\* attempt, and its entry takes the body of the attempt's response.
Logged(l, n, exchange) ==
    IF n = 0 THEN Append(l, exchange)
    ELSE [l EXCEPT ![Len(l)] = exchange]

\* An exception and the call it came from.
Exc(name, at) == [exc |-> name, at |-> at]

\* ------------------------------------------------------- request decorator

\* request_decorator(self._request): the attempt answered with status is
\* retried when validate_response raises RetriableAPIError and attempts are
\* left.
Retries(status, n) ==
    /\ ValidateResponse(status) = Some("RetriableAPIError")
    /\ n + 1 < MaxTries

\* The exception that leaves the decorated request after this attempt.
Raises(status, n) ==
    IF ValidateResponse(status) # None /\ ~Retries(status, n)
    THEN ValidateResponse(status)
    ELSE None

\* ------------------------------------------------------- remote system

\* The view-items path the remote system hands out as meta.next_items.
NextItems(id, cursor) ==
    <<"/api/views/", ToString(id), "/items", "?", "cursor=", ToString(cursor)>>

\* An integer query parameter of a request, dflt when the URL has none.
IntParam(url, key, dflt) ==
    IF Param(url, key) = None \/ Val(Param(url, key)) = << >> THEN dflt
    ELSE ParseInt(Val(Param(url, key))[1])

\* Records cursor+1 .. cursor+limit of the n the remote system holds.
PageData(n, cursor, limit) ==
    [i \in 1..(IF cursor + limit < n THEN limit
               ELSE IF cursor < n THEN n - cursor ELSE 0) |-> [id |-> cursor + i]]

\* The ways the remote system marks the last page of a list: no next-page
\* key in meta, a null, or an empty string.
LastPageMarks == {"absent", "null", "empty"}

LastPageMeta(key, mark) ==
    IF mark = "absent" THEN << >>
    ELSE IF mark = "null" THEN key :> None
    ELSE key :> Some(EmptyStr)

\* The bodies the remote system may answer a view-items request with.
ItemsBodies(r, id, url) ==
    LET cursor == IntParam(url, "cursor=", 0)
        limit == IntParam(url, "limit=", r.n + 1)
    IN  IF cursor + limit < r.n
        THEN { [data |-> PageData(r.n, cursor, limit),
                meta |-> [next_items |-> Some(NextItems(id, cursor + limit))]] }
        ELSE { [data |-> PageData(r.n, cursor, limit), meta |-> LastPageMeta("next_items", m)] :
                 m \in LastPageMarks }

\* ------------------------------------------------------- streams.py: Tickets

\* RESTStream.get_url for TicketsStream.path = "/api/views/{view_id}/items".
GetUrl(cfg, ctx) ==
    UrlBase(cfg) \o <<"/api/views/", ToString(ctx.view_id), "/items">>

\* A mutant of PrepareRequestUrl: the limit is appended to the next-page path
\* with "?" although the path has a query string already.
PrepareRequestUrlSecondQuery(cfg, ctx, token) ==
    IF ~Truthy(token)
    THEN GetUrl(cfg, ctx)
            \o <<"?", "limit=", ToString(cfg["ticket_view_page_size"])>>
    ELSE UrlBase(cfg) \o Val(token)
            \o <<"?", "limit=", ToString(cfg["ticket_view_page_size"])>>

\* TicketsStream.prepare_request: the URL of the page request.
PrepareRequestUrl(cfg, ctx, token) ==
    IF ~Truthy(token)
    THEN GetUrl(cfg, ctx)
            \o <<"?", "limit=", ToString(cfg["ticket_view_page_size"])>>
    ELSE UrlBase(cfg) \o Val(token)
            \o <<"&", "limit=", ToString(cfg["ticket_view_page_size"])>>

\* TicketsStream.get_current_user_id: the URL of its request.
CurrentUserUrl(cfg) == UrlBase(cfg) \o <<"/api/users/0">>

\* A mutant of CreateViewPayload: the view is shared with user 0, the id in
\* the lookup's path, not with the id the lookup returned.
CreateViewPayloadUserZero(user, sync_start_datetime) ==
    [category |-> "user",
     order_by |-> "updated_datetime",
     order_dir |-> "asc",
     visibility |-> "private",
     shared_with_users |-> <<0>>,
     type |-> "ticket-list",
     slug |-> "could-be-anything"]
    @@ (IF sync_start_datetime # None
        THEN "filters" :> (<<"gte(ticket.updated_datetime, '">>
                              \o IsoFormat(Val(sync_start_datetime)) \o <<"')">>)
        ELSE << >>)

\* A mutant of CreateViewPayload: the filter is strict, gt for gte.
CreateViewPayloadStrict(user, sync_start_datetime) ==
    [category |-> "user",
     order_by |-> "updated_datetime",
     order_dir |-> "asc",
     visibility |-> "private",
     shared_with_users |-> <<user>>,
     type |-> "ticket-list",
     slug |-> "could-be-anything"]
    @@ (IF sync_start_datetime # None
        THEN "filters" :> (<<"gt(ticket.updated_datetime, '">>
                              \o IsoFormat(Val(sync_start_datetime)) \o <<"')">>)
        ELSE << >>)

\* TicketsStream.create_ticket_view: the payload of the view.
CreateViewPayload(user, sync_start_datetime) ==
    [category |-> "user",
     order_by |-> "updated_datetime",
     order_dir |-> "asc",
     visibility |-> "private",
     shared_with_users |-> <<user>>,
     type |-> "ticket-list",
     slug |-> "could-be-anything"]
    @@ (IF sync_start_datetime # None
        THEN "filters" :> (<<"gte(ticket.updated_datetime, '">>
                              \o IsoFormat(Val(sync_start_datetime)) \o <<"')">>)
        ELSE << >>)

\* TicketsStream.create_ticket_view: the URL of its request.
CreateViewUrl(cfg) == UrlBase(cfg) \o <<"/api/views">>

\* A mutant of DeleteViewUrl: the path names another view.
DeleteViewUrlOtherId(cfg, id) ==
    UrlBase(cfg) \o <<"/api/views/", ToString(id + 1), "/">>

\* TicketsStream.delete_ticket_view: the URL of its request.
DeleteViewUrl(cfg, id) == UrlBase(cfg) \o <<"/api/views/", ToString(id), "/">>

\* GorgiasStream.get_next_page_token with TicketsStream's
\* next_page_token_jsonpath "$.meta.next_items": the first match, None when
\* the path matches nothing.
TicketsNextPageToken(body) ==
    IF "next_items" \in DOMAIN body.meta THEN body.meta.next_items ELSE None


\* ------------------------------------------------------- Tickets sync

Terminal == pc \in {"done", "failed"}

\* The state after construction: the tap is configured, the remote system
\* holds its records and no view of this execution, nothing was requested.
TicketsInit ==
    /\ stream = "tickets"
    /\ pc = "user"
    /\ \E sub \in Subdomains :
          config \in {"subdomain" :> sub}
                     \cup { ("subdomain" :> sub) @@ ("ticket_view_page_size" :> n) :
                              n \in PageSizes }
    /\ start_ts \in {None} \cup { Some(d) : d \in Datetimes }
    /\ remote \in [user : UserIds, n : 0..MaxRecords, views : {{}}, next_id : {1}]
    /\ log = << >>
    /\ current_user_id = None
    /\ view_id = None
    /\ context = << >>
    /\ next_page_token = None
    /\ page = << >>
    /\ finished = FALSE
    /\ emitted = << >>
    /\ tries = 0
    /\ pending = None
    /\ err = None
    /\ closing = FALSE
    /\ status_code = 0
    /\ outcome = None
    /\ response = << >>
    /\ now = 0
    /\ slept = << >>
    /\ streams = << >>
    /\ child = << >>

\* get_current_user_id (called first by create_ticket_view): one attempt of
\* GET /api/users/0.
LookupUser ==
    /\ stream = "tickets" /\ pc = "user"
    /\ \E status \in Statuses :
          LET body == IF status = 200 THEN [id |-> remote.user] ELSE << >>
          IN  /\ log' = Logged(log, tries, Exchange("get", CurrentUserUrl(config), None,
                                      status, body))
              /\ IF Retries(status, tries)
                 THEN /\ tries' = tries + 1
                      /\ UNCHANGED <<pc, current_user_id, err>>
                 ELSE IF Raises(status, tries) # None
                 THEN /\ tries' = 0
                      /\ pc' = "failed"
                      /\ err' = Some(Exc(Val(Raises(status, tries)),
                                         "get_current_user_id"))
                      /\ UNCHANGED current_user_id
                 ELSE /\ tries' = 0
                      /\ pc' = "create"
                      /\ current_user_id' = Some(body.id)
                      /\ UNCHANGED err
    /\ UNCHANGED <<now, slept, streams, child>>
    /\ UNCHANGED <<stream, config, start_ts, remote, view_id, context, next_page_token,
                   page, finished, emitted, pending, closing, status_code,
                   outcome, response>>

\* A mutant of CreateFailure: the failure is swallowed and paging starts.
CreateFailureSwallowed(exc) ==
    /\ pc' = "page"
    /\ err' = None
    /\ view_id' = Some(0)
    /\ context' = [view_id |-> 0]

\* create_ticket_view is called outside get_records' try block: its
\* exception leaves get_records at once.
CreateFailure(exc) ==
    /\ pc' = "failed"
    /\ err' = Some(Exc(exc, "create_ticket_view"))
    /\ UNCHANGED <<view_id, context>>

\* create_ticket_view after the user lookup: one attempt of POST /api/views.
\* The remote system creates the view when it answers 200; when it answers
\* 500 it may have created it before failing; on 404 and 429 it has not.
CreateView ==
    /\ stream = "tickets" /\ pc = "create"
    /\ \E status \in Statuses, created \in BOOLEAN :
          /\ status = 200 => created
          /\ status \in {404, 429} => ~created
          /\ LET id == remote.next_id
                 body == IF status = 200 THEN [id |-> id] ELSE << >>
             IN  /\ log' = Logged(log, tries,
                        Exchange("post", CreateViewUrl(config),
                                 Some(CreateViewPayload(Val(current_user_id), start_ts)),
                                 status, body))
                 /\ remote' = IF created
                              THEN [remote EXCEPT !.views = @ \cup {id},
                                                  !.next_id = @ + 1]
                              ELSE remote
                 /\ IF Retries(status, tries)
                    THEN /\ tries' = tries + 1
                         /\ UNCHANGED <<pc, view_id, context, err>>
                    ELSE IF Raises(status, tries) # None
                    THEN /\ tries' = 0
                         /\ CreateFailure(Val(Raises(status, tries)))
                    ELSE /\ tries' = 0
                         /\ pc' = "page"
                         /\ view_id' = Some(body.id)
                         /\ context' = [view_id |-> body.id]
                         /\ UNCHANGED err
    /\ UNCHANGED <<now, slept, streams, child>>
    /\ UNCHANGED <<stream, config, start_ts, current_user_id, next_page_token,
                   page, finished, emitted, pending, closing, status_code,
                   outcome, response>>

\* The position after a step of the record loop: the loop is left when the
\* page is used up and the pagination has finished.
LoopPc(buf, fin) == IF buf = << >> /\ fin THEN "finally" ELSE "page"

\* prepare_request reads config['ticket_view_page_size']: a KeyError when the
\* config has no such key. It is raised inside the try block.
PrepareRequestKeyError ==
    /\ stream = "tickets" /\ pc = "page" /\ page = << >> /\ ~finished
    /\ "ticket_view_page_size" \notin DOMAIN config
    /\ pending' = Some(Exc("KeyError", "prepare_request"))
    /\ pc' = "finally"
    /\ UNCHANGED <<now, slept, streams, child>>
    /\ UNCHANGED <<stream, config, start_ts, remote, log, current_user_id,
                   view_id, context, next_page_token, page, finished, emitted, tries,
                   err, closing, status_code, outcome, response>>

\* request_records: one attempt of the request prepare_request built for the
\* current token; on success the page's records and the next token.
RequestPage ==
    /\ stream = "tickets" /\ pc = "page" /\ page = << >> /\ ~finished
    /\ "ticket_view_page_size" \in DOMAIN config
    /\ LET url == PrepareRequestUrl(config, context, next_page_token)
       IN  \E status \in Statuses :
           \E body \in IF status = 200
                       THEN ItemsBodies(remote, Val(view_id), url)
                       ELSE {<< >>} :
              /\ log' = Logged(log, tries,
                              Exchange("GET", url, None, status, body))
              /\ IF Retries(status, tries)
                 THEN /\ tries' = tries + 1
                      /\ UNCHANGED <<pc, next_page_token, page, finished, pending>>
                 ELSE IF Raises(status, tries) # None
                 THEN /\ tries' = 0
                      /\ pending' = Some(Exc(Val(Raises(status, tries)),
                                             "request_records"))
                      /\ pc' = "finally"
                      /\ UNCHANGED <<next_page_token, page, finished>>
                 ELSE /\ tries' = 0
                      /\ page' = body.data
                      /\ next_page_token' = TicketsNextPageToken(body)
                      /\ finished' = ~Truthy(TicketsNextPageToken(body))
                      /\ pc' = LoopPc(body.data, ~Truthy(TicketsNextPageToken(body)))
                      /\ UNCHANGED pending
    /\ UNCHANGED <<now, slept, streams, child>>
    /\ UNCHANGED <<stream, config, start_ts, remote, current_user_id, view_id, context,
                   emitted, err, closing, status_code, outcome, response>>

\* post_process returned the record: get_records yields it and is suspended
\* at the yield.
YieldRecord ==
    /\ stream = "tickets" /\ pc = "page" /\ page # << >>
    /\ emitted' = Append(emitted, Head(page))
    /\ page' = Tail(page)
    /\ pc' = "yield"
    /\ UNCHANGED <<now, slept, streams, child>>
    /\ UNCHANGED <<stream, config, start_ts, remote, log, current_user_id,
                   view_id, context, next_page_token, finished, tries, pending, err,
                   closing, status_code, outcome, response>>

\* post_process returned None: the record is skipped.
FilterRecord ==
    /\ stream = "tickets" /\ pc = "page" /\ page # << >>
    /\ page' = Tail(page)
    /\ pc' = LoopPc(Tail(page), finished)
    /\ UNCHANGED <<now, slept, streams, child>>
    /\ UNCHANGED <<stream, config, start_ts, remote, log, current_user_id,
                   view_id, context, next_page_token, finished, emitted, tries, pending,
                   err, closing, status_code, outcome, response>>

\* post_process raised: the exception leaves the try block.
PostProcessError ==
    /\ stream = "tickets" /\ pc = "page" /\ page # << >>
    /\ pending' = Some(Exc("Exception", "post_process"))
    /\ pc' = "finally"
    /\ UNCHANGED <<now, slept, streams, child>>
    /\ UNCHANGED <<stream, config, start_ts, remote, log, current_user_id,
                   view_id, context, next_page_token, page, finished, emitted, tries,
                   err, closing, status_code, outcome, response>>

\* The consumer asks for the next record: get_records resumes after the yield.
ConsumerNext ==
    /\ stream = "tickets" /\ pc = "yield"
    /\ pc' = LoopPc(page, finished)
    /\ UNCHANGED <<now, slept, streams, child>>
    /\ UNCHANGED <<stream, config, start_ts, remote, log, current_user_id,
                   view_id, context, next_page_token, page, finished, emitted, tries,
                   pending, err, closing, status_code, outcome, response>>

\* The consumer of the records (the framework's record loop: writing the
\* record, syncing the child stream) raises while get_records is suspended at
\* the yield. The exception travels up the consumer's frames; get_records is
\* not resumed.
ConsumerError ==
    /\ stream = "tickets" /\ pc = "yield"
    /\ pending' = Some(Exc("Exception", "consumer"))
    /\ pc' = "abandoned"
    /\ UNCHANGED <<now, slept, streams, child>>
    /\ UNCHANGED <<stream, config, start_ts, remote, log, current_user_id,
                   view_id, context, next_page_token, page, finished, emitted, tries,
                   err, closing, status_code, outcome, response>>

\* The abandoned generator is finalized: close() throws GeneratorExit at the
\* yield and the finally clause runs.
GeneratorClose ==
    /\ stream = "tickets" /\ pc = "abandoned"
    /\ closing' = TRUE
    /\ pc' = "finally"
    /\ UNCHANGED <<now, slept, streams, child>>
    /\ UNCHANGED <<stream, config, start_ts, remote, log, current_user_id,
                   view_id, context, next_page_token, page, finished, emitted, tries,
                   pending, err, status_code, outcome, response>>

\* The process ends on the consumer's exception with the generator still
\* suspended: Python does not promise to finalize objects that exist when the
\* interpreter exits, and get_records has no other call of its finally clause.
InterpreterExit ==
    /\ stream = "tickets" /\ pc = "abandoned"
    /\ pc' = "failed"
    /\ err' = pending
    /\ UNCHANGED <<now, slept, streams, child>>
    /\ UNCHANGED <<stream, config, start_ts, remote, log, current_user_id,
                   view_id, context, next_page_token, page, finished, emitted, tries,
                   pending, closing, status_code, outcome, response>>

\* The view id in the path of a delete request.
DeletedId(cfg, url) == ParseInt(url[Len(UrlBase(cfg)) + 2])

\* delete_ticket_view raised in the finally clause: its exception replaces
\* the one in flight and leaves get_records; a generator that is being
\* closed has it ignored, and the consumer's exception stands.
DeleteRaised(exc) ==
    /\ pc' = "failed"
    /\ err' = IF closing THEN pending ELSE Some(Exc(exc, "delete_ticket_view"))

\* The finally clause of get_records: one attempt of DELETE /api/views/{id}/.
\* The remote system removes the view when it answers 200.
DeleteView ==
    /\ stream = "tickets" /\ pc = "finally"
    /\ LET url == DeleteViewUrl(config, Val(view_id))
       IN  \E status \in Statuses :
              /\ log' = Logged(log, tries, Exchange("delete", url, None,
                                                    status, << >>))
              /\ remote' = IF status = 200
                           THEN [remote EXCEPT !.views = @ \ {DeletedId(config, url)}]
                           ELSE remote
              /\ IF Retries(status, tries)
                 THEN /\ tries' = tries + 1
                      /\ UNCHANGED <<pc, err>>
                 ELSE IF Raises(status, tries) # None
                 THEN /\ tries' = 0
                      /\ DeleteRaised(Val(Raises(status, tries)))
                 ELSE /\ tries' = 0
                      /\ pc' = IF pending = None THEN "done" ELSE "failed"
                      /\ err' = pending
    /\ UNCHANGED <<now, slept, streams, child>>
    /\ UNCHANGED <<stream, config, start_ts, current_user_id, view_id, context,
                   next_page_token, page, finished, emitted, pending, closing,
                   status_code, outcome, response, now, slept, streams,
      child>>

Next ==
    \/ LookupUser
    \/ CreateView
    \/ PrepareRequestKeyError
    \/ RequestPage
    \/ YieldRecord
    \/ FilterRecord
    \/ PostProcessError
    \/ ConsumerNext
    \/ ConsumerError
    \/ GeneratorClose
    \/ InterpreterExit
    \/ DeleteView

Spec == TicketsInit /\ [][Next]_vars


\* ------------------------------------------------------- framework requests

\* The query string the framework's prepare_request makes of the dictionary
\* get_url_params returned: the parameters in the dictionary's order, those
\* whose value is None left out.
RECURSIVE EncodeParams(_, _)
EncodeParams(keys, params) ==
    IF keys = << >> THEN << >>
    ELSE LET rest == EncodeParams(Tail(keys), params)
         IN  IF params[Head(keys)] = None THEN rest
             ELSE <<Head(keys) \o "=">> \o Val(params[Head(keys)])
                     \o (IF rest = << >> THEN << >> ELSE <<"&">> \o rest)

\* The URL of the request the framework prepares: get_url(context) and the
\* encoded parameters.
RequestUrl(url, keys, params) ==
    IF EncodeParams(keys, params) = << >> THEN url
    ELSE url \o <<"?">> \o EncodeParams(keys, params)

\* ------------------------------------------------------- validate_response

\* A response with any status code is about to be validated.
ValidateInit ==
    /\ stream = "none"
    /\ pc = "response"
    /\ status_code \in 0..MaxStatus
    /\ outcome = None
    /\ tries = 0
    /\ finished = FALSE
    /\ closing = FALSE
    /\ config = << >>
    /\ start_ts = << >>
    /\ remote = << >>
    /\ log = << >>
    /\ current_user_id = << >>
    /\ view_id = << >>
    /\ context = << >>
    /\ next_page_token = << >>
    /\ page = << >>
    /\ emitted = << >>
    /\ pending = << >>
    /\ err = << >>
    /\ response = << >>
    /\ now = 0
    /\ slept = << >>
    /\ streams = << >>
    /\ child = << >>

\* validate_response(response)
Validate ==
    /\ stream = "none" /\ pc = "response"
    /\ outcome' = Some(ValidateResponse(status_code))
    /\ pc' = "validated"
    /\ UNCHANGED <<now, slept, streams, child>>
    /\ UNCHANGED <<stream, config, start_ts, remote, log, current_user_id,
                   view_id, context, next_page_token, page, finished, emitted,
                   tries, pending, err, closing, status_code, response>>

NextValidate == Validate

SpecValidate == ValidateInit /\ [][NextValidate]_vars

\* ------------------------------------------------------- page-number streams

\* The streams that page by number, each with the contexts it is synced in.
PageStreams ==
    { [name |-> "satisfaction_surveys", context |-> << >>] }
        \cup { [name |-> "messages", context |-> [ticket_id |-> t]] :
                 t \in 1..MaxRecords }

\* RESTStream.get_url for MessagesStream.path and
\* SatisfactionSurveysStream.path.
PageGetUrl(cfg, name, ctx) ==
    IF name = "messages"
    THEN UrlBase(cfg) \o <<"/api/tickets/", ToString(ctx.ticket_id), "/messages">>
    ELSE UrlBase(cfg) \o <<"/api/satisfaction-surveys">>

\* A mutant of PageUrlParams: a later page is asked for by the number after
\* the token.
PageUrlParamsSkip(token) ==
    [page |-> IF token = None THEN None ELSE Some(<<ToString(Val(token) + 1)>>)]

\* PaginatedGorgiasStream.get_url_params
PageUrlParams(token) ==
    [page |-> IF token = None THEN None ELSE Some(<<ToString(Val(token))>>)]

\* A mutant of PageNextPageToken: the last page asks for one more.
PageNextPageTokenOffByOne(body) ==
    IF body.meta.nb_pages >= body.meta.page
    THEN Some(body.meta.page + 1)
    ELSE None

\* PaginatedGorgiasStream.get_next_page_token
PageNextPageToken(body) ==
    IF body.meta.nb_pages > body.meta.page
    THEN Some(body.meta.page + 1)
    ELSE None

\* A page response with any meta.page and meta.nb_pages has arrived.
TokenInit ==
    /\ \E s \in PageStreams : stream = s.name /\ context = s.context
    /\ pc = "response"
    /\ \E sub \in Subdomains : config = [subdomain |-> sub]
    /\ response \in [data : {<< >>},
                     meta : [page : 0..MaxPage, nb_pages : 0..MaxPage]]
    /\ log = << >>
    /\ next_page_token = None
    /\ finished = FALSE
    /\ tries = 0
    /\ closing = FALSE
    /\ status_code = 0
    /\ start_ts = << >>
    /\ remote = << >>
    /\ current_user_id = << >>
    /\ view_id = << >>
    /\ page = << >>
    /\ emitted = << >>
    /\ pending = << >>
    /\ err = << >>
    /\ outcome = << >>
    /\ now = 0
    /\ slept = << >>
    /\ streams = << >>
    /\ child = << >>

\* The pagination loop takes the next token from the response and is
\* finished when the token is falsy.
TakePageToken ==
    /\ stream \in {"messages", "satisfaction_surveys"} /\ pc = "response"
    /\ next_page_token' = PageNextPageToken(response)
    /\ finished' = (PageNextPageToken(response) = None
                    \/ Val(PageNextPageToken(response)) = 0)
    /\ pc' = IF PageNextPageToken(response) = None
                \/ Val(PageNextPageToken(response)) = 0
             THEN "done" ELSE "page"
    /\ UNCHANGED <<now, slept, streams, child>>
    /\ UNCHANGED <<stream, config, start_ts, remote, log, current_user_id,
                   view_id, context, page, emitted, tries, pending, err,
                   closing, status_code, outcome, response>>

\* The pagination loop prepares the request of the next page.
PreparePageRequest ==
    /\ stream \in {"messages", "satisfaction_surveys"} /\ pc = "page"
    /\ log' = Append(log,
                 [method |-> "GET",
                  url |-> RequestUrl(PageGetUrl(config, stream, context),
                                     <<"page">>, PageUrlParams(next_page_token)),
                  json |-> None,
                  body |-> None])
    /\ pc' = "requested"
    /\ UNCHANGED <<now, slept, streams, child>>
    /\ UNCHANGED <<stream, config, start_ts, remote, current_user_id, view_id,
                   context, next_page_token, page, finished, emitted, tries,
                   pending, err, closing, status_code, outcome, response>>

NextToken == TakePageToken \/ PreparePageRequest

SpecToken == TokenInit /\ [][NextToken]_vars

\* ------------------------------------------------------- cursor streams

\* The path of a stream that pages with GorgiasStream's own scheme.
CursorStreamPath == <<"/api/customers">>

\* The cursor the remote system hands out for the records after the first k.
CursorFor(k) == <<"cur-", ToString(k)>>

\* The position a cursor parameter of a request stands for.
CursorPosition(url) ==
    IF Param(url, "cursor=") = None THEN 0
    ELSE ParseInt(Val(Param(url, "cursor="))[2])

\* The bodies the remote system may answer a cursor-paged request with.
CursorBodies(r, url) ==
    LET cursor == CursorPosition(url)
        limit == IntParam(url, "limit=", r.n + 1)
    IN  IF cursor + limit < r.n
        THEN { [data |-> PageData(r.n, cursor, limit),
                meta |-> [next_cursor |-> Some(CursorFor(cursor + limit))]] }
        ELSE { [data |-> PageData(r.n, cursor, limit),
                meta |-> LastPageMeta("next_cursor", m)] : m \in LastPageMarks }

\* A mutant of CursorUrlParams: the page size is not sent.
CursorUrlParamsNoLimit(cfg, token) == [cursor |-> token, limit |-> None]

\* GorgiasStream.get_url_params
CursorUrlParams(cfg, token) ==
    [cursor |-> token, limit |-> Some(<<ToString(cfg["page_size"])>>)]

\* GorgiasStream.get_next_page_token with next_page_token_jsonpath
\* "$.meta.next_cursor": the first match, None when the path matches nothing.
CursorNextPageToken(body) ==
    IF "next_cursor" \in DOMAIN body.meta THEN body.meta.next_cursor ELSE None

\* A cursor-paged stream is about to be synced.
CursorInit ==
    /\ stream = "customers"
    /\ pc = "page"
    /\ \E sub \in Subdomains, n \in PageSizes \cup {DefaultPageSize} :
          config = [subdomain |-> sub, page_size |-> n]
    /\ remote \in [n : 0..MaxRecords]
    /\ log = << >>
    /\ next_page_token = None
    /\ page = << >>
    /\ finished = FALSE
    /\ emitted = << >>
    /\ tries = 0
    /\ pending = None
    /\ err = None
    /\ closing = FALSE
    /\ status_code = 0
    /\ start_ts = << >>
    /\ current_user_id = << >>
    /\ view_id = << >>
    /\ context = << >>
    /\ outcome = << >>
    /\ response = << >>
    /\ now = 0
    /\ slept = << >>
    /\ streams = << >>
    /\ child = << >>

\* The pagination loop: one attempt of the request for the current token; on
\* success the page's records and the next token.
CursorRequestPage ==
    /\ stream = "customers" /\ pc = "page" /\ page = << >> /\ ~finished
    /\ LET url == RequestUrl(UrlBase(config) \o CursorStreamPath,
                             <<"cursor", "limit">>,
                             CursorUrlParams(config, next_page_token))
       IN  \E status \in Statuses :
           \E body \in IF status = 200 THEN CursorBodies(remote, url) ELSE {<< >>} :
              /\ log' = Logged(log, tries,
                               Exchange("GET", url, None, status, body))
              /\ IF Retries(status, tries)
                 THEN /\ tries' = tries + 1
                      /\ UNCHANGED <<pc, next_page_token, page, finished, err>>
                 ELSE IF Raises(status, tries) # None
                 THEN /\ tries' = 0
                      /\ err' = Some(Exc(Val(Raises(status, tries)),
                                         "request_records"))
                      /\ pc' = "failed"
                      /\ UNCHANGED <<next_page_token, page, finished>>
                 ELSE /\ tries' = 0
                      /\ page' = body.data
                      /\ next_page_token' = CursorNextPageToken(body)
                      /\ finished' = ~Truthy(CursorNextPageToken(body))
                      /\ pc' = IF body.data = << >>
                                  /\ ~Truthy(CursorNextPageToken(body))
                               THEN "done" ELSE "page"
                      /\ UNCHANGED err
    /\ UNCHANGED <<now, slept, streams, child>>
    /\ UNCHANGED <<stream, config, start_ts, remote, current_user_id, view_id,
                   context, emitted, pending, closing, status_code, outcome,
                   response>>

\* The pagination loop hands on the next record of the page.
CursorEmitRecord ==
    /\ stream = "customers" /\ pc = "page" /\ page # << >>
    /\ emitted' = Append(emitted, Head(page))
    /\ page' = Tail(page)
    /\ pc' = IF Tail(page) = << >> /\ finished THEN "done" ELSE "page"
    /\ UNCHANGED <<now, slept, streams, child>>
    /\ UNCHANGED <<stream, config, start_ts, remote, log, current_user_id,
                   view_id, context, next_page_token, finished, tries, pending,
                   err, closing, status_code, outcome, response>>

NextCursor == CursorRequestPage \/ CursorEmitRecord

SpecCursor == CursorInit /\ [][NextCursor]_vars

\* ------------------------------------------------------- reading the log

\* The API root of the configured subdomain.
Root == <<"https://", config.subdomain, ".gorgias.com">>

\* The request is the current-user lookup, GET /api/users/0.
IsUserLookup(e) == e.method = "get" /\ e.url = Root \o <<"/api/users/0">>

\* The request is the view creation, POST /api/views.
IsCreate(e) == e.method = "post" /\ e.url = Root \o <<"/api/views">>

\* The request is a view-items page request: GET <root>/api/views/<id>/items.
IsItems(e) ==
    /\ e.method = "GET"
    /\ Len(UrlPath(e.url)) = Len(Root) + 3
    /\ IsPrefix(Root \o <<"/api/views/">>, e.url)
    /\ UrlPath(e.url)[Len(Root) + 3] = "/items"

\* The request is the delete of view id: DELETE <root>/api/views/<id>/.
IsDeleteOf(e, id) ==
    e.method = "delete" /\ e.url = Root \o <<"/api/views/", ToString(id), "/">>

\* The request is a delete of some view.
IsDelete(e) ==
    /\ e.method = "delete"
    /\ Len(e.url) = Len(Root) + 3
    /\ IsPrefix(Root \o <<"/api/views/">>, e.url)

\* The call was answered with a response that validate_response accepted.
Answered(e) == e.body # None

\* The positions of the log whose request satisfies P.
Where(P(_)) == { i \in 1..Len(log) : P(log[i]) }

\* A call of the decorated request is still being attempted.
InFlight == pc \in {"user", "create"} \/ tries > 0

\* ------------------------------------------------------- C1

DeleteFailed == Terminal /\ \E i \in Where(IsDelete) : ~Answered(log[i])

\* C2: a failure of the view delete request is not escalated to a fatal error
\* of the Tickets sync: a sync whose try block raised nothing ends
\* successfully, and a sync that failed in the try block ends with that
\* error, not with the delete error.
C2_DeleteFailureNotEscalated ==
    DeleteFailed =>
        /\ pending = None => (pc = "done" /\ err = None)
        /\ pending # None => err = pending

\* ------------------------------------------------------- C3

\* The user lookup or the view creation has failed: its call is over and got
\* no accepted response.
SetupFailed ==
    /\ ~InFlight
    /\ \E i \in 1..Len(log) :
          (IsUserLookup(log[i]) \/ IsCreate(log[i])) /\ ~Answered(log[i])

\* C3: if the current-user lookup or the view-creation request fails, the
\* Tickets stream has ended with an error, no view-items page was requested
\* and no ticket record was emitted.
C3_SetupFailureAborts ==
    SetupFailed =>
        /\ pc = "failed"
        /\ err # None
        /\ Where(IsItems) = {}
        /\ emitted = << >>

\* C3 witness: the view creation failed after a successful user lookup.
C3_Witness ==
    /\ SetupFailed
    /\ Len(log) = 2
    /\ IsUserLookup(log[1]) /\ Answered(log[1])
    /\ IsCreate(log[2]) /\ ~Answered(log[2])

\* ------------------------------------------------------- C4

C5_RequestOrder ==
    /\ Len(log) >= 1 => IsUserLookup(log[1])
    /\ \A i \in Where(IsCreate) :
          /\ i = 2
          /\ Answered(log[1])
          /\ Val(log[i].json).shared_with_users = <<Val(log[1].body).id>>
    /\ \A i \in Where(IsItems) :
          /\ i >= 3
          /\ IsCreate(log[2]) /\ Answered(log[2])

\* C5 witness: a view-items page was requested.
C5_Witness == Where(IsItems) # {} /\ Val(log[1].body).id = 8

\* ------------------------------------------------------- C6

\* The datetime an ISO string stands for (the inverse of isoformat).
FromIso(str) ==
    [date |-> str[1],
     time |-> str[3],
     us |-> IF IndexOf(str, ".") = 0 THEN 0
            ELSE ParseInt(str[IndexOf(str, ".") + 1]),
     utc |-> str[Len(str)] = "+00:00"]

\* The filter string reads gte(ticket.updated_datetime, '<dt>').
IsGteFilter(f, dt) ==
    /\ Len(f) >= 3
    /\ f[1] = "gte(ticket.updated_datetime, '"
    /\ f[Len(f)] = "')"
    /\ FromIso(SubSeq(f, 2, Len(f) - 1)) = dt

CreatedId == Val(log[2].body).id

\* The next-page path of an answered view-items response, None when the
\* response has no next_items key.
NextItemsOf(e) ==
    IF "next_items" \in DOMAIN Val(e.body).meta
    THEN Val(e.body).meta.next_items
    ELSE None

C7_PageToken ==
    pc \in {"page", "requested", "done"} =>
        IF response.meta.page < response.meta.nb_pages
        THEN /\ next_page_token = Some(response.meta.page + 1)
             /\ pc # "done"
             /\ pc = "requested" =>
                   /\ Len(log) = 1
                   /\ Param(log[1].url, "page=")
                         = Some(<<ToString(response.meta.page + 1)>>)
        ELSE /\ next_page_token = None
             /\ pc = "done"
             /\ log = << >>

\* C7 witness: the next page of a ticket's messages was requested with the
\* page after the response's.
C7_Witness ==
    /\ pc = "requested"
    /\ stream = "messages"
    /\ response.meta.page = 2
    /\ Param(log[1].url, "page=") = Some(<<"3">>)

\* ------------------------------------------------------- C9

\* The value under meta.next_cursor of an answered response, None when the
\* response has no such key.
NextCursorOf(e) ==
    IF "next_cursor" \in DOMAIN Val(e.body).meta
    THEN Val(e.body).meta.next_cursor
    ELSE None

\* C9 as claimed: the cursor parameter of a following request is the value of
\* the cursor query parameter parsed out of the previous response's next-link.
C9_CursorParsedFromLink ==
    \A i \in 2..Len(log) :
        Param(log[i].url, "cursor=")
            = Param(Val(NextCursorOf(log[i - 1])), "cursor=")

\* C9 as amended: the next page token is the value of the response's
\* meta.next_cursor as it stands; it is the cursor parameter of the following
\* request, every request carries limit = page_size, the first request has
\* no cursor, and no request follows a response without a next_cursor.
C9_CursorReplayed ==
    \A i \in 1..Len(log) :
        /\ Param(log[i].url, "limit=") = Some(<<ToString(config.page_size)>>)
        /\ i = 1 => Param(log[i].url, "cursor=") = None
        /\ i > 1 =>
              /\ Answered(log[i - 1])
              /\ Truthy(NextCursorOf(log[i - 1]))
              /\ Param(log[i].url, "cursor=") = NextCursorOf(log[i - 1])

\* C9 witness: a second page was requested with the cursor of the first
\* response, and the pagination ended on a response without a next_cursor.
C9_Witness ==
    /\ pc = "done"
    /\ Len(log) = 2
    /\ Param(log[2].url, "cursor=") = Some(CursorFor(1))
    /\ NextCursorOf(log[2]) = None

\* ------------------------------------------------------- C10

\* C10: validate_response raises a retriable error on 429 and on 500..599, a
\* fatal error on every other code in 400..499, and nothing on any other
\* code.
C10_StatusClasses ==
    pc = "validated" =>
        /\ (status_code = 429 \/ status_code \in 500..599)
              <=> outcome = Some(Some("RetriableAPIError"))
        /\ (status_code \in 400..499 /\ status_code # 429)
              <=> outcome = Some(Some("FatalAPIError"))
        /\ (status_code < 400 \/ status_code >= 600) <=> outcome = Some(None)

\* C10 witness: a 429 was classified as retriable.
C10_Witness ==
    /\ pc = "validated"
    /\ status_code = 429
    /\ outcome = Some(Some("RetriableAPIError"))

\* ------------------------------------------------------- rate limiting

\* The largest Retry-after the remote system answers with, in seconds.
MaxRetryAfter == 2

\* The longest wait the request decorator adds of its own between attempts.
MaxBackoff == 1

\* response.headers of a response without and with a Retry-after header: the
\* header's value is the text of a number of seconds.
HeadersWithout == [h \in {"Content-Type"} |-> "application/json"]

HeadersWith(d) ==
    [h \in {"Content-Type", "Retry-after"} |->
        IF h = "Retry-after" THEN ToString(d) ELSE "application/json"]

RetryHeaders == {HeadersWithout} \cup { HeadersWith(d) : d \in 0..MaxRetryAfter }

\* int(response.headers.get("Retry-after", 0))
RetryAfter(headers) ==
    IF "Retry-after" \in DOMAIN headers
    THEN ParseInt(headers["Retry-after"])
    ELSE 0

\* A mutant of ValidateSleep: the retriable error is raised without waiting.
ValidateSleepSkipped(resp) == None

\* validate_response's time.sleep: the duration it sleeps before it raises,
\* None when it does not sleep.
ValidateSleep(resp) ==
    IF resp.status_code = 429 THEN Some(RetryAfter(resp.headers)) ELSE None

\* One decorated request is about to be sent for the first time.
RetryInit ==
    /\ stream = "none"
    /\ pc = "send"
    /\ tries = 0
    /\ log = << >>
    /\ now = 0
    /\ slept = << >>
    /\ outcome = None
    /\ finished = FALSE
    /\ closing = FALSE
    /\ status_code = 0
    /\ config = << >>
    /\ start_ts = << >>
    /\ remote = << >>
    /\ current_user_id = << >>
    /\ view_id = << >>
    /\ context = << >>
    /\ next_page_token = << >>
    /\ page = << >>
    /\ emitted = << >>
    /\ pending = << >>
    /\ err = << >>
    /\ response = << >>
    /\ streams = << >>
    /\ child = << >>

\* An attempt: the request is sent and the remote system answers. In this
\* specification log has one entry per attempt, with the time it was sent at.
SendAttempt ==
    /\ stream = "none" /\ pc = "send"
    /\ \E status \in Statuses, headers \in RetryHeaders :
          response' = <<[status_code |-> status, headers |-> headers,
                         received |-> now]>>
    /\ log' = Append(log, [sent |-> now, response |-> None, raised |-> None])
    /\ pc' = "response"
    /\ UNCHANGED <<stream, config, start_ts, remote, current_user_id, view_id,
                   context, next_page_token, page, finished, emitted, tries,
                   pending, err, closing, status_code, outcome, now, slept,
                   streams, child>>

\* validate_response(response) inside the decorated request: it sleeps, then
\* raises; the decorator retries a RetriableAPIError while attempts are left.
ValidateAttempt ==
    /\ stream = "none" /\ pc = "response"
    /\ LET resp  == Val(response)
           sleep == ValidateSleep(resp)
           woken == IF sleep = None THEN now ELSE now + Val(sleep)
       IN  /\ now' = woken
           /\ slept' = IF sleep = None THEN slept ELSE Append(slept, Val(sleep))
           /\ outcome' = Some(ValidateResponse(resp.status_code))
           /\ log' = [log EXCEPT ![Len(log)].response = response,
                                 ![Len(log)].raised =
                                     IF ValidateResponse(resp.status_code) = None
                                     THEN None ELSE Some(woken)]
           /\ pc' = IF Retries(resp.status_code, tries) THEN "backoff"
                    ELSE IF ValidateResponse(resp.status_code) = None THEN "done"
                    ELSE "failed"
    /\ tries' = tries + 1
    /\ UNCHANGED <<stream, config, start_ts, remote, current_user_id, view_id,
                   context, next_page_token, page, finished, emitted, pending,
                   err, closing, status_code, response, streams, child>>

\* The decorator's own wait before the next attempt; it may be no wait at all.
Backoff ==
    /\ stream = "none" /\ pc = "backoff"
    /\ \E w \in 0..MaxBackoff : now' = now + w
    /\ pc' = "send"
    /\ UNCHANGED <<stream, config, start_ts, remote, log, current_user_id,
                   view_id, context, next_page_token, page, finished, emitted,
                   tries, pending, err, closing, status_code, outcome, response,
                   slept, streams, child>>

NextRetry == SendAttempt \/ ValidateAttempt \/ Backoff

SpecRetry == RetryInit /\ [][NextRetry]_vars

\* ------------------------------------------------------- C11

\* The attempts that validate_response has dealt with and that were answered
\* with 429.
RateLimited ==
    { i \in 1..Len(log) :
        log[i].response # None /\ Val(log[i].response).status_code = 429 }

\* The delay a 429 response asks for: its Retry-after, 0 without the header.
AskedDelay(resp) ==
    IF "Retry-after" \in DOMAIN resp.headers
    THEN CHOOSE d \in 0..MaxRetryAfter + 1 : ToString(d) = resp.headers["Retry-after"]
    ELSE 0

\* C11: on a 429 response the client waits the response's Retry-after delay
\* (0 without the header) before it raises the retriable error, so that no
\* retry is sent before the delay is over, and it waits once per 429 response.
C11_RetryAfterHonoured ==
    /\ \A i \in RateLimited :
          /\ log[i].raised # None
          /\ Val(log[i].raised)
               >= Val(log[i].response).received + AskedDelay(Val(log[i].response))
          /\ i < Len(log) =>
               log[i + 1].sent
                 >= Val(log[i].response).received + AskedDelay(Val(log[i].response))
    /\ Len(slept) = Cardinality(RateLimited)
    /\ \A i \in RateLimited :
          slept[Cardinality({ j \in RateLimited : j <= i })]
            = AskedDelay(Val(log[i].response))

\* 429 with Retry-after 2, a retry two seconds later, then 429 without the
\* header.
C11_Witness ==
    /\ Len(log) = 2
    /\ RateLimited = {1, 2}
    /\ Val(log[1].response).headers = HeadersWith(2)
    /\ Val(log[2].response).headers = HeadersWithout
    /\ log[2].sent = 2
    /\ slept = <<2, 0>>

\* ------------------------------------------------------- satisfaction surveys sync

\* The bodies the remote system answers a page-number request with: the page
\* asked for (the first without a page parameter), in pages of the length the
\* request asks for, of the remote system's own length when it asks for none.
SurveysBodies(r, url) ==
    LET p == IntParam(url, "page=", 1)
        limit == IntParam(url, "limit=", r.per_page)
    IN  { [data |-> PageData(r.n, (p - 1) * limit, limit),
           meta |-> [page |-> p, nb_pages |-> (r.n + limit - 1) \div limit]] }

\* The satisfaction_surveys stream is about to be synced.
SurveysInit ==
    /\ stream = "satisfaction_surveys"
    /\ pc = "page"
    /\ \E sub \in Subdomains, n \in PageSizes \cup {DefaultPageSize} :
          config = [subdomain |-> sub, page_size |-> n]
    /\ remote \in [n : 0..MaxRecords, per_page : PageSizes]
    /\ log = << >>
    /\ next_page_token = None
    /\ page = << >>
    /\ finished = FALSE
    /\ emitted = << >>
    /\ tries = 0
    /\ pending = None
    /\ err = None
    /\ closing = FALSE
    /\ status_code = 0
    /\ start_ts = << >>
    /\ current_user_id = << >>
    /\ view_id = << >>
    /\ context = << >>
    /\ outcome = << >>
    /\ response = << >>
    /\ now = 0
    /\ slept = << >>
    /\ streams = << >>
    /\ child = << >>

\* The pagination loop: one attempt of the request prepared for the current
\* token; on success the page's records and the next token, which must not
\* be the token the page was asked for with.
SurveysRequestPage ==
    /\ stream = "satisfaction_surveys" /\ pc = "page" /\ page = << >> /\ ~finished
    /\ LET url == RequestUrl(PageGetUrl(config, stream, context),
                             <<"page">>, PageUrlParams(next_page_token))
       IN  \E status \in Statuses :
           \E body \in IF status = 200 THEN SurveysBodies(remote, url) ELSE {<< >>} :
              /\ log' = Logged(log, tries,
                               Exchange("GET", url, None, status, body))
              /\ IF Retries(status, tries)
                 THEN /\ tries' = tries + 1
                      /\ UNCHANGED <<pc, next_page_token, page, finished,
                                     pending, err>>
                 ELSE IF Raises(status, tries) # None
                 THEN /\ tries' = 0
                      /\ err' = Some(Exc(Val(Raises(status, tries)),
                                         "request_records"))
                      /\ pc' = "failed"
                      /\ UNCHANGED <<next_page_token, page, finished, pending>>
                 ELSE LET token == PageNextPageToken(body)
                          falsy == token = None \/ Val(token) = 0
                          loop  == IF ~falsy /\ token = next_page_token
                                   THEN Some(Exc("RuntimeError", "request_records"))
                                   ELSE None
                      IN  /\ tries' = 0
                          /\ page' = body.data
                          /\ next_page_token' = token
                          /\ finished' = falsy
                          /\ pending' = loop
                          /\ err' = IF body.data = << >> THEN loop ELSE err
                          /\ pc' = IF body.data # << >> THEN "page"
                                   ELSE IF loop # None THEN "failed"
                                   ELSE IF falsy THEN "done" ELSE "page"
    /\ UNCHANGED <<now, slept, streams, child>>
    /\ UNCHANGED <<stream, config, start_ts, remote, current_user_id, view_id,
                   context, emitted, closing, status_code, outcome, response>>

\* The pagination loop hands on the next record of the page; after the last
\* one it goes on to the token it took from the page.
SurveysEmitRecord ==
    /\ stream = "satisfaction_surveys" /\ pc = "page" /\ page # << >>
    /\ emitted' = Append(emitted, Head(page))
    /\ page' = Tail(page)
    /\ err' = IF Tail(page) = << >> THEN pending ELSE err
    /\ pc' = IF Tail(page) # << >> THEN "page"
             ELSE IF pending # None THEN "failed"
             ELSE IF finished THEN "done" ELSE "page"
    /\ UNCHANGED <<now, slept, streams, child>>
    /\ UNCHANGED <<stream, config, start_ts, remote, log, current_user_id,
                   view_id, context, next_page_token, finished, tries, pending,
                   closing, status_code, outcome, response>>

NextSurveys == SurveysRequestPage \/ SurveysEmitRecord

SpecSurveys == SurveysInit /\ [][NextSurveys]_vars

\* ------------------------------------------------------- C12

\* The ids of the records emitted so far, in order.
EmittedIds == [i \in 1..Len(emitted) |-> emitted[i].id]

\* C12: a satisfaction_surveys sync against an unchanging remote system emits
\* one record per survey: no survey is ever emitted twice, and when the sync
\* is done every survey has been emitted, whatever the number of surveys and
\* the length of the pages.
C12_EverySurveyOnce ==
    stream = "satisfaction_surveys" =>
      /\ \A i, j \in 1..Len(emitted) : EmittedIds[i] = EmittedIds[j] => i = j
      /\ pc = "done" => { EmittedIds[i] : i \in 1..Len(emitted) } = 1..remote.n

\* Three surveys in pages of two were synced: two requests, three records.
C12_Witness ==
    /\ stream = "satisfaction_surveys" /\ pc = "done"
    /\ remote.n = MaxRecords /\ remote.per_page = 2
    /\ Len(log) = 2
    /\ Len(emitted) = MaxRecords

\* ------------------------------------------------------- C13

\* The length of the pages a request asks for, None when it asks for none.
AskedPageSize(e) == Param(e.url, "limit=")

\* C13: a sync with the configured page_size P over R records prepares
\* exactly R \div P + 1 page requests, and every request asks for pages of
\* the configured page_size.
C13_PageCount ==
    (stream = "satisfaction_surveys" /\ pc = "done") =>
      /\ Len(log) = remote.n \div config.page_size + 1
      /\ \A i \in 1..Len(log) :
            AskedPageSize(log[i]) = Some(<<ToString(config.page_size)>>)

\* ------------------------------------------------------- messages sync

\* The most messages a ticket has on the remote system.
MaxMessages == 2

\* A mutant of GetChildContext: the child is handed the id after the
\* record's.
GetChildContextNextId(record) == [ticket_id |-> record.id + 1]

\* TicketsStream.get_child_context
GetChildContext(record) == [ticket_id |-> record.id]

\* The bodies the remote system answers a messages request with: every
\* ticket has r.messages messages, in pages of one.
MessagesBodies(r, url) ==
    SurveysBodies([n |-> r.messages, per_page |-> 1], url)

\* The state after construction, with Messages as the child of Tickets.
MessagesInit ==
    /\ stream = "tickets"
    /\ pc = "user"
    /\ \E sub \in Subdomains, n \in PageSizes :
          config = ("subdomain" :> sub) @@ ("ticket_view_page_size" :> n)
    /\ start_ts = None
    /\ remote \in [user : {CHOOSE u \in UserIds : TRUE}, n : 0..MaxRecords,
                   views : {{}}, next_id : {1}, messages : 0..MaxMessages]
    /\ log = << >>
    /\ current_user_id = None
    /\ view_id = None
    /\ context = << >>
    /\ next_page_token = None
    /\ page = << >>
    /\ finished = FALSE
    /\ emitted = << >>
    /\ tries = 0
    /\ pending = None
    /\ err = None
    /\ closing = FALSE
    /\ status_code = 0
    /\ outcome = << >>
    /\ response = << >>
    /\ now = 0
    /\ slept = << >>
    /\ streams = << >>
    /\ child = None

\* The consumer of a yielded ticket syncs the child stream in the context
\* get_child_context makes of the record: one attempt of the messages request
\* for the child's current token. When the child's pages are through, the
\* consumer asks get_records for the next record; when the request fails, the
\* exception travels up the consumer's frames and get_records is not resumed.
MessagesRequestPage ==
    /\ stream = "tickets" /\ pc = "yield"
    /\ LET c == IF child = None
                THEN [context |-> GetChildContext(emitted[Len(emitted)]),
                      next_page_token |-> None]
                ELSE Val(child)
           url == RequestUrl(PageGetUrl(config, "messages", c.context),
                             <<"page">>, PageUrlParams(c.next_page_token))
       IN  \E status \in Statuses :
           \E body \in IF status = 200 THEN MessagesBodies(remote, url) ELSE {<< >>} :
              /\ log' = Logged(log, tries,
                               Exchange("GET", url, None, status, body))
              /\ IF Retries(status, tries)
                 THEN /\ tries' = tries + 1
                      /\ child' = Some(c)
                      /\ UNCHANGED <<pc, pending>>
                 ELSE IF Raises(status, tries) # None
                 THEN /\ tries' = 0
                      /\ child' = None
                      /\ pending' = Some(Exc(Val(Raises(status, tries)), "messages"))
                      /\ pc' = "abandoned"
                 ELSE LET token == PageNextPageToken(body)
                          falsy == token = None \/ Val(token) = 0
                          loop  == ~falsy /\ token = c.next_page_token
                      IN  /\ tries' = 0
                          /\ child' = IF falsy \/ loop THEN None
                                      ELSE Some([c EXCEPT !.next_page_token = token])
                          /\ pending' = IF loop
                                        THEN Some(Exc("RuntimeError", "messages"))
                                        ELSE pending
                          /\ pc' = IF loop THEN "abandoned"
                                   ELSE IF falsy THEN LoopPc(page, finished)
                                   ELSE "yield"
    /\ UNCHANGED <<stream, config, start_ts, remote, current_user_id, view_id,
                   context, next_page_token, page, finished, emitted, err,
                   closing, status_code, outcome, response, now, slept, streams>>

NextMessages ==
    \/ LookupUser
    \/ CreateView
    \/ RequestPage
    \/ YieldRecord
    \/ FilterRecord
    \/ PostProcessError
    \/ MessagesRequestPage
    \/ GeneratorClose
    \/ InterpreterExit
    \/ DeleteView

SpecMessages == MessagesInit /\ [][NextMessages]_vars

\* ------------------------------------------------------- C14

\* The request is a messages request: GET <root>/api/tickets/<id>/messages.
IsMessages(e) ==
    /\ e.method = "GET"
    /\ Len(UrlPath(e.url)) = Len(Root) + 3
    /\ IsPrefix(Root \o <<"/api/tickets/">>, e.url)
    /\ UrlPath(e.url)[Len(Root) + 3] = "/messages"

\* The ticket id in the path of a messages request.
TicketOf(e) == e.url[Len(Root) + 2]

\* The positions of the messages requests for ticket id t, oldest first.
RECURSIVE MessagesOfFrom(_, _)
MessagesOfFrom(t, i) ==
    IF i > Len(log) THEN << >>
    ELSE (IF IsMessages(log[i]) /\ TicketOf(log[i]) = t THEN <<i>> ELSE << >>)
            \o MessagesOfFrom(t, i + 1)

MessagesOf(t) == MessagesOfFrom(t, 1)

\* The child sync of the k-th emitted ticket has sent a request.
ChildStarted(k) == k < Len(emitted) \/ pc # "yield" \/ child # None

\* C14: every messages request has the path /api/tickets/{ticket_id}/messages
\* with the id of a ticket that get_records had yielded before the request,
\* and once the child sync of an emitted ticket has sent a request, the
\* ticket's messages are asked for from the first page on: the first request
\* names no page, the j-th names page j.
C14_MessagesOfEmittedTickets ==
    stream = "tickets" =>
      /\ \A i \in 1..Len(log) :
            log[i].method = "GET" /\ ~IsItems(log[i]) =>
              /\ IsMessages(log[i])
              /\ \E k \in 1..Len(emitted) : TicketOf(log[i]) = ToString(emitted[k].id)
      /\ \A k \in 1..Len(emitted) :
            ChildStarted(k) =>
              LET reqs == MessagesOf(ToString(emitted[k].id))
              IN  /\ reqs # << >>
                  /\ Param(log[reqs[1]].url, "page=") = None
                  /\ \A j \in 2..Len(reqs) :
                        Param(log[reqs[j]].url, "page=") = Some(<<ToString(j)>>)

\* Two tickets with two messages each were synced: four messages requests.
C14_Witness ==
    /\ stream = "tickets" /\ pc = "done" /\ err = None
    /\ Len(emitted) = 2
    /\ "messages" \in DOMAIN remote /\ remote.messages = 2
    /\ Cardinality(Where(IsMessages)) = 4

\* ------------------------------------------------------- tap.py

\* The classes streams.py defines, and those with the CustomersStream class
\* that tap.py imports from it.
StreamsClasses ==
    {"TicketsStream", "PaginatedGorgiasStream", "MessagesStream",
     "SatisfactionSurveysStream"}

StreamsModules == {StreamsClasses, StreamsClasses \cup {"CustomersStream"}}

\* from tap_gorgias.streams import (...)
ImportedNames ==
    {"TicketsStream", "MessagesStream", "SatisfactionSurveysStream",
     "CustomersStream"}

\* STREAM_TYPES
STREAM_TYPES == <<"TicketsStream", "MessagesStream", "SatisfactionSurveysStream">>

\* name, path and primary_keys of a stream class.
StreamName(cls) ==
    IF cls = "TicketsStream" THEN "tickets"
    ELSE IF cls = "MessagesStream" THEN "messages"
    ELSE "satisfaction_surveys"

StreamPath(cls) ==
    IF cls = "TicketsStream" THEN "/api/views/{view_id}/items"
    ELSE IF cls = "MessagesStream" THEN "/api/tickets/{ticket_id}/messages"
    ELSE "/api/satisfaction-surveys"

StreamPrimaryKeys(cls) == <<"id">>

\* stream_class(tap=self)
StreamOf(cls, cfg) ==
    [name |-> StreamName(cls), path |-> StreamPath(cls),
     primary_keys |-> StreamPrimaryKeys(cls), config |-> cfg]

\* TapGorgias.discover_streams
DiscoverStreams(cfg) ==
    [i \in 1..Len(STREAM_TYPES) |-> StreamOf(STREAM_TYPES[i], cfg)]

\* Values of the start_date setting.
StartDates == {"2020-01-01", "2021-01-01", "2022-01-01"}

\* A setting of config_jsonschema that may be left out: None, or the setting
\* with one of its values.
Optional(key, values) == {None} \cup { Some(key :> v) : v \in values }

\* The config with an optional setting added to it.
With(cfg, setting) == IF setting = None THEN cfg ELSE cfg @@ Val(setting)

\* The configs a tap is constructed with: the required settings and any of
\* the optional ones; ticket_view_page_size is the setting TicketsStream
\* reads.
TapConfigs ==
    { With(With(With([subdomain |-> sub, email_address |-> "me@acme.com",
                      api_key |-> "key"], d), p), t) :
        sub \in Subdomains,
        d \in Optional("start_date", StartDates),
        p \in Optional("page_size", PageSizes \cup {DefaultPageSize}),
        t \in Optional("ticket_view_page_size", PageSizes) }

\* The tap is about to be loaded with its config.
TapInit ==
    /\ stream = "none"
    /\ pc = "load"
    /\ config \in TapConfigs
    /\ streams = None
    /\ err = None
    /\ log = << >>
    /\ tries = 0
    /\ finished = FALSE
    /\ closing = FALSE
    /\ status_code = 0
    /\ now = 0
    /\ start_ts = << >>
    /\ remote = << >>
    /\ current_user_id = << >>
    /\ view_id = << >>
    /\ context = << >>
    /\ next_page_token = << >>
    /\ page = << >>
    /\ emitted = << >>
    /\ pending = << >>
    /\ outcome = << >>
    /\ response = << >>
    /\ slept = << >>
    /\ child = << >>

\* The tap module is imported and the tap's streams are discovered: the
\* import raises ImportError when streams.py does not define a name it
\* imports.
LoadTap ==
    /\ stream = "none" /\ pc = "load"
    /\ \E module \in StreamsModules :
          IF ImportedNames \subseteq module
          THEN /\ streams' = Some(DiscoverStreams(config))
               /\ pc' = "loaded"
               /\ UNCHANGED err
          ELSE /\ err' = Some(Exc("ImportError", "tap"))
               /\ pc' = "failed"
               /\ UNCHANGED streams
    /\ UNCHANGED <<stream, config, start_ts, remote, log, current_user_id,
                   view_id, context, next_page_token, page, finished, emitted,
                   tries, pending, closing, status_code, outcome, response, now,
                   slept, child>>

NextTap == LoadTap

SpecTap == TapInit /\ [][NextTap]_vars

\* ------------------------------------------------------- C15

\* The names of the discovered streams.
DiscoveredNames == { Val(streams)[i].name : i \in 1..Len(Val(streams)) }

\* C15: the tap provides four stream definitions: discover_streams returns
\* exactly tickets, messages, satisfaction surveys and customers, each with
\* a path and the primary key id.
C15_FourStreams ==
    (stream = "none" /\ pc \in {"loaded", "failed"}) =>
      /\ streams # None
      /\ Len(Val(streams)) = 4
      /\ DiscoveredNames = {"tickets", "messages", "satisfaction_surveys", "customers"}
      /\ \A i \in 1..Len(Val(streams)) :
            /\ Val(streams)[i].path # ""
            /\ Val(streams)[i].primary_keys = <<"id">>

\* ------------------------------------------------------- C16

\* The number of views the remote system has created in this sync: it hands
\* out its ids in order, starting from 1.
ViewsCreated == remote.next_id - 1

\* The requests of a sync keep the order create, pages, delete: a delete call
\* comes after a creation call that returned an id and is for that id, there
\* is at most one creation call and at most one delete call, no view-items
\* page is requested after the delete call, and a sync whose user lookup or
\* view creation failed has no delete call.
C16_DeleteDiscipline ==
    /\ \A i \in Where(IsDelete) :
          \E j \in 1..(i - 1) :
             /\ IsCreate(log[j]) /\ Answered(log[j])
             /\ IsDeleteOf(log[i], Val(log[j].body).id)
    /\ Cardinality(Where(IsCreate)) <= 1
    /\ Cardinality(Where(IsDelete)) <= 1
    /\ \A i \in Where(IsDelete) : \A j \in Where(IsItems) : j < i
    /\ SetupFailed => Where(IsDelete) = {}

\* C16: in every Tickets sync a view delete request is issued only after a
\* view-creation request has returned an id and is for exactly that id, at
\* most one view is created and at most one delete call is made, no
\* view-items page is requested after the delete, and no delete is issued
\* when the user lookup or the view creation fails.
C16_OneViewOneDelete ==
    stream = "tickets" => (C16_DeleteDiscipline /\ ViewsCreated <= 1)

====
